---- MODULE Spec2Model ----
(***************************************************************************)
(* Model of server.js: the Express application with the health check       *)
(* GET /api and the donor registration POST /api/register, the mysql2      *)
(* connection pool it shares between requests, and the donors table.       *)
(*                                                                         *)
(* The registration handler is an async function: it runs atomically up to *)
(* each await (pool.getConnection(), connection.query()), so every action  *)
(* below is one such run-to-completion segment of the handler, or one step *)
(* of the database engine executing the INSERT.                            *)
(***************************************************************************)
EXTENDS Integers, Sequences, FiniteSets

\* Bounds of the model.
NumReq == 3            \* registration requests the model follows
ConnectionLimit == 2   \* capacity of the pool (mysql2's default of 10, scaled down)
MaxHealth == 1         \* GET /api requests the model follows
MaxOrgans == 2         \* longest organs array of a request body

Reqs == 1..NumReq

----------------------------------------------------------------------------
(* JavaScript values of the request body, and SQL values of a row.         *)

Undefined == [type |-> "undefined", val |-> ""]
Null == [type |-> "null", val |-> ""]
Str(s) == [type |-> "string", val |-> s]
Bool(b) == [type |-> "boolean", val |-> IF b THEN "true" ELSE "false"]
Arr(items) == [type |-> "array", val |-> items]

\* ToBoolean, as `!x` and `x && ...` apply it.
Truthy(v) ==
  CASE v.type = "string" -> v.val # ""
    [] v.type = "boolean" -> v.val = "true"
    [] v.type = "array" -> TRUE
    [] OTHER -> FALSE

\* `x === ''`
IsEmptyString(v) == v.type = "string" /\ v.val = ""

----------------------------------------------------------------------------
(* JSON.stringify on an array of strings, and JSON.parse of the text.      *)
(* A string is a sequence of characters; the text is one too.              *)

EscapeChar(c) ==
  IF c = "\"" THEN <<"\\", "\"">>
  ELSE IF c = "\\" THEN <<"\\", "\\">>
  ELSE <<c>>

RECURSIVE EscapeChars(_)
EscapeChars(s) ==
  IF s = <<>> THEN <<>> ELSE EscapeChar(Head(s)) \o EscapeChars(Tail(s))

QuoteString(s) == <<"\"">> \o EscapeChars(s) \o <<"\"">>

RECURSIVE JoinElements(_)
JoinElements(items) ==
  IF items = <<>> THEN <<>>
  ELSE IF Len(items) = 1 THEN QuoteString(items[1])
  ELSE QuoteString(Head(items)) \o <<",">> \o JoinElements(Tail(items))

\* JSON.stringify(organs): undefined for undefined, else the array's text.
JSONStringify(v) ==
  IF v.type = "undefined" THEN Undefined
  ELSE Str(<<"[">> \o JoinElements(v.val) \o <<"]">>)

ParseFail == [ok |-> FALSE, val |-> <<>>, next |-> 0]

\* The characters of a string literal from position i (after the opening
\* quote) to its closing quote.
RECURSIVE ParseString(_, _, _)
ParseString(text, i, acc) ==
  IF i > Len(text) THEN ParseFail
  ELSE IF text[i] = "\"" THEN [ok |-> TRUE, val |-> acc, next |-> i + 1]
  ELSE IF text[i] = "\\"
    THEN IF i + 1 <= Len(text) /\ text[i + 1] \in {"\"", "\\"}
           THEN ParseString(text, i + 2, Append(acc, text[i + 1]))
           ELSE ParseFail
  ELSE ParseString(text, i + 1, Append(acc, text[i]))

RECURSIVE ParseElements(_, _, _)
ParseElements(text, i, acc) ==
  IF i > Len(text) \/ text[i] # "\"" THEN ParseFail
  ELSE LET s == ParseString(text, i + 1, <<>>) IN
    IF ~s.ok \/ s.next > Len(text) THEN ParseFail
    ELSE IF text[s.next] = "]"
      THEN IF s.next = Len(text)
             THEN [ok |-> TRUE, val |-> Append(acc, s.val), next |-> s.next + 1]
             ELSE ParseFail
    ELSE IF text[s.next] = ","
      THEN ParseElements(text, s.next + 1, Append(acc, s.val))
    ELSE ParseFail

\* JSON.parse of the text of an array of strings.
JSONParse(text) ==
  IF Len(text) < 2 \/ text[1] # "[" THEN ParseFail
  ELSE IF text[2] = "]"
    THEN IF Len(text) = 2 THEN [ok |-> TRUE, val |-> <<>>, next |-> 3] ELSE ParseFail
  ELSE ParseElements(text, 2, <<>>)

----------------------------------------------------------------------------
(* Request bodies.                                                         *)

MakeBodies(fullNames, emails, phones, cities, bloodGroups, bloodFlags, organFlags, organLists) ==
  [fullName : fullNames, email : emails, phone : phones, city : cities,
   bloodGroup : bloodGroups, isBloodDonor : bloodFlags, isOrganDonor : organFlags,
   organs : organLists]

\* Organ names: plain, and ones with the characters JSON escapes or uses as
\* syntax.
OrganNames ==
  { <<"k">>, <<"\\", "\"">>, <<",", "]">> }

RECURSIVE SeqsUpTo(_, _)
SeqsUpTo(S, n) ==
  IF n = 0 THEN { <<>> }
  ELSE LET shorter == SeqsUpTo(S, n - 1) IN
    shorter \cup { Append(s, x) : s \in { t \in shorter : Len(t) = n - 1 }, x \in S }

\* The bodies of the concurrent runs: valid or lacking the name, two emails.
Bodies ==
  MakeBodies({Str(""), Str("Ana Khan")}, {Str("ana@example.com"), Str("bob@example.com")},
             {Str("555-0100")}, {Str("Lahore")}, {Str("O+")}, {Bool(TRUE)},
             {Bool(FALSE)}, {Arr(<<>>)})

\* The bodies of the single-request runs: every field present, empty or absent.
WideBodies ==
  MakeBodies({Undefined, Str(""), Str("Ana Khan")},
             {Str(""), Str("ana@example.com")},
             {Undefined, Str("555-0100")},
             {Str(""), Str("Lahore")},
             {Undefined, Str(""), Str("O+")},
             {Undefined, Bool(TRUE), Bool(FALSE)},
             {Bool(FALSE)},
             {Undefined} \cup { Arr(s) : s \in SeqsUpTo(OrganNames, MaxOrgans) })

NoBody ==
  [fullName |-> Undefined, email |-> Undefined, phone |-> Undefined, city |-> Undefined,
   bloodGroup |-> Undefined, isBloodDonor |-> Undefined, isOrganDonor |-> Undefined,
   organs |-> Undefined]

----------------------------------------------------------------------------
(* The synchronous parts of the registration handler.                      *)

MissingFieldsError == "Please fill out all required fields."
BloodGroupError == "Blood group is required for blood donors."
DuplicateError == "This email is already registered."
GenericError == "An error occurred during registration. Please try again."
SuccessMessage == "Registration successful!"
HealthMessage == "Tohf-e-Hayat Backend (MySQL) is running!"

Response(status, text, id) == [status |-> status, text |-> text, donorId |-> id]

\* Variant: the required-fields check without the city.
RequiredMissingNoCity(b) ==
  ~Truthy(b.fullName) \/ ~Truthy(b.email) \/ ~Truthy(b.phone)

\* if (!fullName || !email || !phone || !city)
RequiredMissing(b) ==
  ~Truthy(b.fullName) \/ ~Truthy(b.email) \/ ~Truthy(b.phone) \/ ~Truthy(b.city)

\* Variant: the blood-group check as `isBloodDonor && bloodGroup === ''`.
BloodGroupMissingEmptyOnly(b) ==
  Truthy(b.isBloodDonor) /\ IsEmptyString(b.bloodGroup)

\* if (isBloodDonor && (!bloodGroup || bloodGroup === ''))
BloodGroupMissing(b) ==
  Truthy(b.isBloodDonor) /\ (~Truthy(b.bloodGroup) \/ IsEmptyString(b.bloodGroup))

\* The two validation rules in order: the responses sent before any await.
Validate(b) ==
  IF RequiredMissing(b) THEN <<Response(400, MissingFieldsError, 0)>>
  ELSE IF BloodGroupMissing(b) THEN <<Response(400, BloodGroupError, 0)>>
  ELSE <<>>

\* Variant: the blood group bound as sent, the empty string too.
FinalBloodGroupUnchanged(bloodGroup) == bloodGroup

\* const finalBloodGroup = bloodGroup === '' ? null : bloodGroup;
FinalBloodGroup(bloodGroup) ==
  IF IsEmptyString(bloodGroup) THEN Null ELSE bloodGroup

\* Variant: the text built by hand, '["' + organs.join('","') + '"]'.
RECURSIVE JoinRaw(_)
JoinRaw(items) ==
  IF items = <<>> THEN <<>>
  ELSE IF Len(items) = 1 THEN items[1]
  ELSE Head(items) \o <<"\"", ",", "\"">> \o JoinRaw(Tail(items))

OrgansJsonNaive(organs) ==
  IF organs.type = "undefined" THEN Undefined
  ELSE Str(<<"[", "\"">> \o JoinRaw(organs.val) \o <<"\"", "]">>)

\* const organsJson = JSON.stringify(organs);
OrgansJson(organs) == JSONStringify(organs)

\* The values array bound to the statement's placeholders.
Values(b) ==
  [full_name |-> b.fullName, email |-> b.email, phone |-> b.phone,
   blood_group |-> FinalBloodGroup(b.bloodGroup), city |-> b.city,
   is_blood_donor |-> b.isBloodDonor, is_organ_donor |-> b.isOrganDonor,
   organs_to_donate |-> OrgansJson(b.organs)]

\* The driver's escaping of a bound value: undefined and null become NULL.
SqlEscape(v) == IF v.type \in {"undefined", "null"} THEN Null ELSE v

\* The row the INSERT writes for the bound values, with the assigned id.
\* `by` records the request the row was inserted for (history only).
Row(values, id, r) ==
  [id |-> id, by |-> r,
   full_name |-> SqlEscape(values.full_name), email |-> SqlEscape(values.email),
   phone |-> SqlEscape(values.phone), blood_group |-> SqlEscape(values.blood_group),
   city |-> SqlEscape(values.city), is_blood_donor |-> SqlEscape(values.is_blood_donor),
   is_organ_donor |-> SqlEscape(values.is_organ_donor),
   organs_to_donate |-> SqlEscape(values.organs_to_donate)]

NoResult == [kind |-> "none", insertId |-> 0, code |-> ""]
Inserted(id) == [kind |-> "ok", insertId |-> id, code |-> ""]
Failed(code) == [kind |-> "error", insertId |-> 0, code |-> code]

\* Variant: donorId taken from result.affectedRows, which is 1.
TryBlockAffectedRows(result) ==
  [sent |-> <<Response(201, SuccessMessage, 1)>>, thrown |-> FALSE]

\* The try block after the query resolved: res.status(201).json({...}).
TryBlock(result) ==
  [sent |-> <<Response(201, SuccessMessage, result.insertId)>>, thrown |-> FALSE]

\* Variant: the catch block without the duplicate-entry case.
CatchBlockAlwaysGeneric(error) ==
  [sent |-> <<Response(500, GenericError, 0)>>, thrown |-> FALSE]

\* Variant: the catch block rethrowing what is no duplicate entry.
CatchBlockRethrow(error) ==
  IF error.code = "ER_DUP_ENTRY"
    THEN [sent |-> <<Response(409, DuplicateError, 0)>>, thrown |-> FALSE]
    ELSE [sent |-> <<>>, thrown |-> TRUE]

\* The catch block: 409 for the duplicate entry, else the generic 500.
CatchBlock(error) ==
  IF error.code = "ER_DUP_ENTRY"
    THEN [sent |-> <<Response(409, DuplicateError, 0)>>, thrown |-> FALSE]
    ELSE [sent |-> <<Response(500, GenericError, 0)>>, thrown |-> FALSE]

\* Variant: the release made at the end of the try block, not in finally.
FinallyBlockOnSuccessOnly(conn, outcome) ==
  IF conn # "none" /\ outcome.sent # <<>> /\ outcome.sent[1].status = 201 THEN 1 ELSE 0

\* The finally block: if (connection) connection.release(). The number of
\* releases it makes.
FinallyBlock(conn, outcome) == IF conn # "none" THEN 1 ELSE 0

\* Variant: a health check that reports the database.
HealthHandlerDbCheck(available) ==
  IF available THEN Response(200, HealthMessage, 0) ELSE Response(503, HealthMessage, 0)

\* app.get('/api'): res.status(200).json({ message: ... })
HealthHandler(available) == Response(200, HealthMessage, 0)

----------------------------------------------------------------------------
(* The pool, as created with the driver's defaults: up to ConnectionLimit  *)
(* connections, and a request for one beyond that waits.                   *)

PoolCanServe(used) == used < ConnectionLimit

\* getConnection() resolves with an idle connection of the pool, or with a
\* new one if the database can be reached.
PoolGrants(used, idleN, available) ==
  PoolCanServe(used) /\ (idleN > 0 \/ available)

\* Variant: the pool created with waitForConnections: false.
PoolRejectsWhenFull(used, idleN, available) ==
  ~PoolCanServe(used) \/ (idleN = 0 /\ ~available)

\* getConnection() fails only when the pool has to open a connection and
\* cannot: with every connection in use the request is queued instead
\* (waitForConnections is left at its default).
PoolRejects(used, idleN, available) ==
  PoolCanServe(used) /\ idleN = 0 /\ ~available

\* connection.release(): an open connection goes back to the idle ones; one
\* the database dropped has left the pool.
PoolAfterRelease(idleN, conn, n) == IF conn = "open" THEN idleN + n ELSE idleN

----------------------------------------------------------------------------
(* State.                                                                  *)

VARIABLES
  pc,           \* per request: "idle", "getConnection", "query", "returned", "done"
  body,         \* per request: req.body
  connection,   \* per request: `connection`: "none" (undefined), "open" or "lost"
  result,       \* per request: what the query's promise settles with
  responses,    \* per request: the responses sent, in order
  donors,       \* the donors table: its rows in insertion order
  nextId,       \* the table's AUTO_INCREMENT counter
  inUse,        \* connections of the pool handed out and not released
  idle,         \* open connections of the pool that no request holds
  dbAvailable,  \* whether the database can be reached
  healthLog,    \* the responses GET /api sent
  acquired,     \* per request: connections it acquired (history)
  released,     \* per request: releases it made (history)
  waited,       \* per request: it waited with every connection in use (history)
  unhandled     \* requests whose handler's promise rejected

vars ==
  <<pc, body, connection, result, responses, donors, nextId, inUse, idle,
    dbAvailable, healthLog, acquired, released, waited, unhandled>>

Init ==
  /\ pc = [r \in Reqs |-> "idle"]
  /\ body = [r \in Reqs |-> NoBody]
  /\ connection = [r \in Reqs |-> "none"]
  /\ result = [r \in Reqs |-> NoResult]
  /\ responses = [r \in Reqs |-> <<>>]
  /\ donors = <<>>
  /\ nextId = 1
  /\ inUse = 0
  /\ idle = 0
  /\ dbAvailable = TRUE
  /\ healthLog = <<>>
  /\ acquired = [r \in Reqs |-> 0]
  /\ released = [r \in Reqs |-> 0]
  /\ waited = [r \in Reqs |-> FALSE]
  /\ unhandled = {}

\* Requests waiting in pool.getConnection() while no connection is free.
Waiting(pcs, used) ==
  { r \in Reqs : pcs[r] = "getConnection" /\ ~PoolCanServe(used) }

EmailTaken(email) == \E i \in DOMAIN donors : donors[i].email = email

----------------------------------------------------------------------------
(* Actions.                                                                *)

\* GET /api.
HealthCheck ==
  /\ Len(healthLog) < MaxHealth
  /\ healthLog' = Append(healthLog, HealthHandler(dbAvailable))
  /\ UNCHANGED <<pc, body, connection, result, responses, donors, nextId, inUse,
                 idle, dbAvailable, acquired, released, waited, unhandled>>

\* POST /api/register arrives with body b: the handler runs to its first
\* await, pool.getConnection(), or returns a 400 before it.
Receive(r, b) ==
  /\ pc[r] = "idle"
  /\ unhandled = {}
  /\ body' = [body EXCEPT ![r] = b]
  /\ LET early == Validate(b) IN
       /\ responses' = [responses EXCEPT ![r] = early]
       /\ pc' = [pc EXCEPT ![r] = IF early # <<>> THEN "done" ELSE "getConnection"]
  /\ waited' = [x \in Reqs |-> waited[x] \/ x \in Waiting(pc', inUse)]
  /\ UNCHANGED <<connection, result, donors, nextId, inUse, idle, dbAvailable,
                 healthLog, acquired, released, unhandled>>

\* pool.getConnection() resolves: the handler calls connection.query().
GetConnectionResolve(r) ==
  /\ pc[r] = "getConnection"
  /\ PoolGrants(inUse, idle, dbAvailable)
  /\ inUse' = inUse + 1
  /\ idle' = IF idle > 0 THEN idle - 1 ELSE idle
  /\ connection' = [connection EXCEPT ![r] = "open"]
  /\ acquired' = [acquired EXCEPT ![r] = @ + 1]
  /\ pc' = [pc EXCEPT ![r] = "query"]
  /\ waited' = [x \in Reqs |-> waited[x] \/ x \in Waiting(pc', inUse')]
  /\ UNCHANGED <<body, result, responses, donors, nextId, dbAvailable, healthLog,
                 released, unhandled>>

\* The handler from a rejected await to its end: catch, then finally.
HandleError(r, error) ==
  LET outcome == CatchBlock(error)
      n == FinallyBlock(connection[r], outcome)
  IN /\ responses' = [responses EXCEPT ![r] = @ \o outcome.sent]
     /\ unhandled' = IF outcome.thrown THEN unhandled \cup {r} ELSE unhandled
     /\ inUse' = inUse - n
     /\ idle' = PoolAfterRelease(idle, connection[r], n)
     /\ released' = [released EXCEPT ![r] = @ + n]
     /\ pc' = [pc EXCEPT ![r] = "done"]

\* pool.getConnection() rejects: the pool could not open a connection.
GetConnectionReject(r) ==
  /\ pc[r] = "getConnection"
  /\ PoolRejects(inUse, idle, dbAvailable)
  /\ HandleError(r, Failed("ECONNREFUSED"))
  /\ waited' = [x \in Reqs |-> waited[x] \/ x \in Waiting(pc', inUse')]
  /\ UNCHANGED <<body, connection, result, donors, nextId, dbAvailable, healthLog,
                 acquired>>

\* The database executes the INSERT of request r: the row is written with
\* the next id, or the unique key on email rejects it, or the connection is
\* lost.
DbExecInsert(r) ==
  /\ pc[r] = "query"
  /\ pc' = [pc EXCEPT ![r] = "returned"]
  /\ IF ~dbAvailable
       THEN /\ result' = [result EXCEPT ![r] = Failed("PROTOCOL_CONNECTION_LOST")]
            /\ connection' = [connection EXCEPT ![r] = "lost"]
            /\ UNCHANGED <<donors, nextId>>
       ELSE IF EmailTaken(SqlEscape(Values(body[r]).email))
         THEN /\ result' = [result EXCEPT ![r] = Failed("ER_DUP_ENTRY")]
              /\ UNCHANGED <<donors, nextId, connection>>
         ELSE /\ donors' = Append(donors, Row(Values(body[r]), nextId, r))
              /\ result' = [result EXCEPT ![r] = Inserted(nextId)]
              /\ nextId' = nextId + 1
              /\ UNCHANGED connection
  /\ UNCHANGED <<body, responses, inUse, idle, dbAvailable, healthLog,
                 acquired, released, waited, unhandled>>

\* connection.query() settles: the rest of the try block, or the catch block,
\* and the finally block.
QueryReturn(r) ==
  /\ pc[r] = "returned"
  /\ IF result[r].kind = "ok"
       THEN LET outcome == TryBlock(result[r])
                n == FinallyBlock(connection[r], outcome)
            IN /\ responses' = [responses EXCEPT ![r] = @ \o outcome.sent]
               /\ unhandled' = IF outcome.thrown THEN unhandled \cup {r} ELSE unhandled
               /\ inUse' = inUse - n
               /\ idle' = PoolAfterRelease(idle, connection[r], n)
               /\ released' = [released EXCEPT ![r] = @ + n]
               /\ pc' = [pc EXCEPT ![r] = "done"]
       ELSE HandleError(r, result[r])
  /\ waited' = [x \in Reqs |-> waited[x] \/ x \in Waiting(pc', inUse')]
  /\ UNCHANGED <<body, connection, result, donors, nextId, dbAvailable, healthLog,
                 acquired>>

\* The database becomes unreachable, or reachable again.
DbFail ==
  /\ dbAvailable
  /\ dbAvailable' = FALSE
  /\ UNCHANGED <<pc, body, connection, result, responses, donors, nextId, inUse,
                 idle, healthLog, acquired, released, waited, unhandled>>

DbRecover ==
  /\ ~dbAvailable
  /\ dbAvailable' = TRUE
  /\ UNCHANGED <<pc, body, connection, result, responses, donors, nextId, inUse,
                 idle, healthLog, acquired, released, waited, unhandled>>

HandlerStep(r) ==
  \/ GetConnectionResolve(r)
  \/ GetConnectionReject(r)
  \/ DbExecInsert(r)
  \/ QueryReturn(r)

Next ==
  \/ HealthCheck
  \/ \E r \in Reqs, b \in Bodies : Receive(r, b)
  \/ \E r \in Reqs : HandlerStep(r)
  \/ DbFail
  \/ DbRecover

Spec == Init /\ [][Next]_vars

\* The event loop runs every settled promise's continuation, and the
\* database finishes every statement it was sent.
\* The bodies of the fair runs: valid, and all with one email, so that an
\* insert succeeds, is a duplicate or loses its connection.
FairBodies ==
  MakeBodies({Str("Ana Khan")}, {Str("ana@example.com")}, {Str("555-0100")},
             {Str("Lahore")}, {Str("O+")}, {Bool(TRUE)}, {Bool(FALSE)}, {Arr(<<>>)})

\* The registrations alone.
FairNext ==
  \/ \E r \in Reqs, b \in FairBodies : Receive(r, b)
  \/ \E r \in Reqs : HandlerStep(r)
  \/ DbFail
  \/ DbRecover

FairSpec == Init /\ [][FairNext]_vars /\ \A r \in Reqs : WF_vars(HandlerStep(r))

\* One request at a time, with every shape of body.
InputNext ==
  \/ HealthCheck
  \/ \E b \in WideBodies : Receive(1, b)
  \/ HandlerStep(1)
  \/ DbFail
  \/ DbRecover

InputSpec == Init /\ [][InputNext]_vars

----------------------------------------------------------------------------
(* Vocabulary of the properties.                                           *)

Done(r) == pc[r] = "done"
InFlight == { r \in Reqs : pc[r] \in {"getConnection", "query", "returned"} }
RowsBy(r) == { i \in DOMAIN donors : donors[i].by = r }
AnsweredWith(r, response) == Done(r) /\ responses[r] = <<response>>
StatusOf(r) == IF responses[r] = <<>> THEN 0 ELSE responses[r][1].status

\* A field that is missing or empty.
MissingOrEmpty(v) == v.type \in {"undefined", "null"} \/ (v.type = "string" /\ v.val = "")

AnyRequiredMissing(b) ==
  \E f \in {"fullName", "email", "phone", "city"} : MissingOrEmpty(b[f])

\* The requests whose INSERT the database executed while it was reachable.
Executed(email) ==
  { r \in Reqs : /\ body[r].email = email
                 /\ result[r].kind # "none"
                 /\ result[r].code # "PROTOCOL_CONNECTION_LOST" }

----------------------------------------------------------------------------
(* C1: under every interleaving of registrations the donors table holds no *)
(* two rows with the same email; of the requests whose insert of one email *)
(* the database executes, exactly one (the first) writes the row and is    *)
(* answered 201, and every other one is rejected as a duplicate, answered  *)
(* 409 with 'This email is already registered.' and writes no row.         *)
C1_UniqueEmail ==
  /\ \A i, j \in DOMAIN donors : i # j => donors[i].email # donors[j].email
  /\ \A r \in Reqs :
       /\ result[r].kind = "ok" =>
            /\ Cardinality(RowsBy(r)) = 1
            /\ Done(r) => AnsweredWith(r, Response(201, SuccessMessage, result[r].insertId))
       /\ result[r].code = "ER_DUP_ENTRY" =>
            /\ RowsBy(r) = {}
            /\ \E i \in DOMAIN donors : donors[i].email = body[r].email /\ donors[i].by # r
            /\ Done(r) => AnsweredWith(r, Response(409, DuplicateError, 0))
       /\ Executed(body[r].email) # {} =>
            Cardinality({ x \in Executed(body[r].email) : result[x].kind = "ok" }) = 1
       /\ StatusOf(r) = 409 => result[r].code = "ER_DUP_ENTRY"

\* Two requests with one email were at the database together: the loser has
\* its 409 while the winner still waits for its result.
C1_Witness ==
  \E r1, r2 \in Reqs :
    /\ r1 # r2
    /\ body[r1].email = body[r2].email
    /\ pc[r1] = "returned" /\ result[r1].kind = "ok"
    /\ AnsweredWith(r2, Response(409, DuplicateError, 0))
    /\ Len(donors) = 1

(* C2: a registration whose fullName, email, phone or city is missing or   *)
(* empty is answered 400 with the missing-fields error, also when the      *)
(* blood-group rule fails too; no row is written and no connection is      *)
(* acquired for it.                                                        *)
C2_MissingFields400 ==
  \A r \in Reqs :
    (pc[r] # "idle" /\ AnyRequiredMissing(body[r])) =>
      /\ AnsweredWith(r, Response(400, MissingFieldsError, 0))
      /\ RowsBy(r) = {}
      /\ donors = <<>>
      /\ acquired[r] = 0 /\ connection[r] = "none" /\ inUse = 0 /\ idle = 0

\* Only the city is empty, and the blood-group rule would fail as well.
C2_Witness ==
  \E r \in Reqs :
    /\ Done(r)
    /\ Truthy(body[r].fullName) /\ Truthy(body[r].email) /\ Truthy(body[r].phone)
    /\ body[r].city = Str("")
    /\ body[r].isBloodDonor = Bool(TRUE) /\ body[r].bloodGroup = Str("")
    /\ StatusOf(r) = 400

(* C3: a registration with the four required fields present, isBloodDonor  *)
(* true and bloodGroup empty or absent is answered 400 with the            *)
(* blood-group error; no row is written and no connection is acquired.     *)
C3_BloodGroup400 ==
  \A r \in Reqs :
    (/\ pc[r] # "idle"
     /\ ~AnyRequiredMissing(body[r])
     /\ body[r].isBloodDonor = Bool(TRUE)
     /\ MissingOrEmpty(body[r].bloodGroup)) =>
      /\ AnsweredWith(r, Response(400, BloodGroupError, 0))
      /\ RowsBy(r) = {}
      /\ donors = <<>>
      /\ acquired[r] = 0 /\ connection[r] = "none" /\ inUse = 0 /\ idle = 0

\* The blood group is absent, not empty.
C3_Witness ==
  \E r \in Reqs :
    /\ Done(r)
    /\ ~AnyRequiredMissing(body[r])
    /\ body[r].isBloodDonor = Bool(TRUE)
    /\ body[r].bloodGroup = Undefined
    /\ StatusOf(r) = 400

(* C4: the rows of the donors table are the 201 responses sent, plus the   *)
(* inserts whose result the handler has not yet been given: a request      *)
(* answered 201 wrote exactly one row, its donorId is that row's id, ids   *)
(* differ between rows, and a request answered 400, 409 or 500 wrote none. *)
(* Every finished request sent exactly one response.                       *)
C4_RowsAre201s ==
  LET ok201 == { r \in Reqs : Done(r) /\ StatusOf(r) = 201 }
      pending == { r \in Reqs : pc[r] = "returned" /\ result[r].kind = "ok" }
  IN /\ Len(donors) = Cardinality(ok201) + Cardinality(pending)
     /\ \A i, j \in DOMAIN donors : i # j => donors[i].id # donors[j].id
     /\ \A r \in Reqs :
          Done(r) =>
            /\ Len(responses[r]) = 1
            /\ StatusOf(r) \in {201, 400, 409, 500}
            /\ StatusOf(r) = 201 =>
                 \E i \in DOMAIN donors :
                   /\ RowsBy(r) = {i}
                   /\ donors[i].id = responses[r][1].donorId
                   /\ donors[i].email = body[r].email
            /\ StatusOf(r) # 201 => RowsBy(r) = {}
     /\ InFlight = {} => Len(donors) = Cardinality(ok201)

\* Every request is finished: two were answered 201 with different ids, one
\* was refused.
C4_Witness ==
  /\ \A r \in Reqs : Done(r)
  /\ \E r1, r2, r3 \in Reqs :
       /\ StatusOf(r1) = 201 /\ StatusOf(r2) = 201
       /\ responses[r1][1].donorId # responses[r2][1].donorId
       /\ StatusOf(r3) \in {400, 409, 500}
  /\ Len(donors) = 2

(* C5: a request releases the connection it acquired exactly once on every *)
(* exit path and releases nothing when the acquisition failed; the         *)
(* connections in use never exceed the pool's capacity, are those the      *)
(* requests in flight hold, and are none when no request is in flight.     *)
C5_ReleasedOnce ==
  /\ inUse \in 0..ConnectionLimit
  /\ idle \in 0..(ConnectionLimit - inUse)
  /\ inUse = Cardinality({ r \in Reqs : connection[r] # "none" /\ released[r] = 0 })
  /\ \A r \in Reqs :
       /\ acquired[r] \in {0, 1}
       /\ released[r] <= acquired[r]
       /\ connection[r] # "none" <=> acquired[r] = 1
       /\ Done(r) => released[r] = acquired[r]
       /\ pc[r] \in {"query", "returned"} => acquired[r] = 1 /\ released[r] = 0
  /\ InFlight = {} => inUse = 0

\* The three exits of a request that held a connection, all taken, and the
\* pool is whole again.
C5_Witness ==
  /\ \E r1, r2, r3 \in Reqs :
       /\ AnsweredWith(r1, Response(201, SuccessMessage, 1)) /\ released[r1] = 1
       /\ AnsweredWith(r2, Response(409, DuplicateError, 0)) /\ released[r2] = 1
       /\ AnsweredWith(r3, Response(500, GenericError, 0)) /\ released[r3] = 1
  /\ inUse = 0

\* A request waits in getConnection() with every connection in use.
Blocked(r) == pc[r] = "getConnection" /\ inUse = ConnectionLimit

(* C6, as the claim states it: a request that waited with every connection *)
(* in use ends having acquired a connection.                               *)
C6_BlockedAlwaysAcquires ==
  \A r \in Reqs : (waited[r] /\ Done(r)) => acquired[r] = 1

(* C6, amended: while every connection is in use a request's acquisition   *)
(* stays pending instead of failing; under fair scheduling it then either  *)
(* acquires a connection, after a release, or its acquisition fails and is *)
(* answered 500, and in both cases the request gets exactly one response.  *)
C6_BlockedEventuallyAnswered ==
  /\ [][\A r \in Reqs : Blocked(r) => pc'[r] = "getConnection" /\ acquired'[r] = 0]_vars
  /\ [][\A r \in Reqs : (waited[r] /\ acquired[r] = 0 /\ acquired'[r] = 1) =>
                           inUse < ConnectionLimit]_vars
  /\ \A r \in Reqs :
       Blocked(r) ~>
         /\ Done(r) /\ Len(responses[r]) = 1
         /\ acquired[r] = 1 \/ AnsweredWith(r, Response(500, GenericError, 0))

\* A request that waited for a connection got one and was answered 201.
C6_Witness ==
  \E r \in Reqs :
    /\ waited[r]
    /\ acquired[r] = 1
    /\ Done(r) /\ StatusOf(r) = 201

\* The requests whose acquisition or insert failed otherwise than by a
\* duplicate email.
FailedOtherwise(r) ==
  \/ Done(r) /\ Validate(body[r]) = <<>> /\ acquired[r] = 0
  \/ Done(r) /\ result[r].kind = "error" /\ result[r].code # "ER_DUP_ENTRY"

(* C7: a failure of the acquisition, or of the insert other than the       *)
(* duplicate email, is caught in the handler and answered 500 with the     *)
(* generic message; the request wrote no row, and no handler's promise     *)
(* rejects, so the server goes on taking requests.                         *)
C7_Generic500 ==
  /\ unhandled = {}
  /\ \A r \in Reqs :
       /\ FailedOtherwise(r) =>
            /\ AnsweredWith(r, Response(500, GenericError, 0))
            /\ RowsBy(r) = {}
       /\ StatusOf(r) = 500 => FailedOtherwise(r)

\* Both failures happened, and a request that came after them was served.
C7_Witness ==
  \E r1, r2, r3 \in Reqs :
    /\ FailedOtherwise(r1) /\ acquired[r1] = 0
    /\ FailedOtherwise(r2) /\ acquired[r2] = 1
    /\ AnsweredWith(r3, Response(201, SuccessMessage, 1))
    /\ donors # <<>> /\ donors[1].by = r3

(* C8, as the claim states it: a row whose is_blood_donor is false has a   *)
(* null blood_group, no row has the empty string as blood_group, and only  *)
(* rows whose is_blood_donor is true have a blood_group. Stated of the     *)
(* rows whose request sent isBloodDonor as a boolean.                      *)
C8_NullUnlessBloodDonor ==
  \A i \in DOMAIN donors :
    donors[i].is_blood_donor.type = "boolean" =>
      /\ donors[i].is_blood_donor = Bool(FALSE) => donors[i].blood_group.type = "null"
      /\ donors[i].blood_group # Str("")
      /\ donors[i].blood_group.type = "string" => donors[i].is_blood_donor = Bool(TRUE)

(* C8, amended: no row has the empty string as blood_group; a row whose    *)
(* is_blood_donor is true has a non-empty blood_group; a row of a request  *)
(* whose bloodGroup was empty or absent has a null blood_group; and a      *)
(* non-empty bloodGroup is stored as sent, whatever is_blood_donor is.     *)
C8_EmptyBloodGroupIsNull ==
  \A i \in DOMAIN donors :
    LET b == body[donors[i].by] IN
      /\ donors[i].blood_group # Str("")
      /\ donors[i].is_blood_donor = Bool(TRUE) =>
           donors[i].blood_group.type = "string" /\ donors[i].blood_group.val # ""
      /\ MissingOrEmpty(b.bloodGroup) => donors[i].blood_group.type = "null"
      /\ ~MissingOrEmpty(b.bloodGroup) => donors[i].blood_group = b.bloodGroup

\* A row of a request that is no blood donor and sent the empty blood group.
C8_Witness ==
  \E i \in DOMAIN donors :
    /\ donors[i].is_blood_donor = Bool(FALSE)
    /\ body[donors[i].by].bloodGroup = Str("")
    /\ donors[i].blood_group.type = "null"

C10_HealthAlways200 ==
  /\ [](Len(healthLog) < MaxHealth => ENABLED HealthCheck)
  /\ [](\A i \in DOMAIN healthLog : healthLog[i] = Response(200, HealthMessage, 0))
  /\ [][healthLog' # healthLog =>
          /\ healthLog' = Append(healthLog, Response(200, HealthMessage, 0))
          /\ UNCHANGED <<pc, body, connection, result, responses, donors, nextId,
                         inUse, idle, dbAvailable, unhandled>>]_vars

\* Answered, with the database unreachable and every connection in use.
C10_Witness ==
  /\ Len(healthLog) = MaxHealth
  /\ ~dbAvailable
  /\ inUse = ConnectionLimit
  /\ donors # <<>>

====
